---------------------------- MODULE Spec2Model ----------------------------
(***************************************************************************)
(* Model of the pet-sitter matching engine of src/main.py: the four        *)
(* scoring functions, the distance sentinel, and the match_sitters handler *)
(* (load, per-sitter scoring loop with its try/except, stable sort, top 5).*)
(*                                                                         *)
(* Python values are modelled as tagged records (PyStr, PyNone, PyNaN,     *)
(* PyInt); a Python str is a sequence of one-character strings, so that    *)
(* split, strip and lower are computed and not assumed.                    *)
(***************************************************************************)
EXTENDS Integers, Sequences, FiniteSets, TLC

VARIABLES table, pc, request, idx, results, response, fn, args, ret

vars == <<table, pc, request, idx, results, response, fn, args, ret>>

matchVars == <<table, pc, request, idx, results, response>>
callVars == <<fn, args, ret>>

(***************************************************************************)
(* Python values                                                           *)
(***************************************************************************)
PyStr(s) == [t |-> "str", s |-> s, n |-> 0]
PyNone == [t |-> "NoneType", s |-> <<>>, n |-> 0]
PyNaN == [t |-> "nan", s |-> <<>>, n |-> 0]
PyInf == [t |-> "inf", s |-> <<>>, n |-> 0]
PyFloat(n) == [t |-> "float", s |-> <<>>, n |-> n]
PyInt(n) == [t |-> "int", s |-> <<>>, n |-> n]

IsStr(v) == v.t = "str"

\* bool(v): '' and None and 0 are falsy, NaN and every other value truthy.
Truthy(v) ==
    CASE v.t = "str" -> v.s # <<>>
      [] v.t = "NoneType" -> FALSE
      [] v.t \in {"int", "float"} -> v.n # 0
      [] OTHER -> TRUE

Digit(n) ==
    CASE n = 0 -> "0" [] n = 1 -> "1" [] n = 2 -> "2" [] n = 3 -> "3"
      [] n = 4 -> "4" [] n = 5 -> "5" [] n = 6 -> "6" [] n = 7 -> "7"
      [] n = 8 -> "8" [] OTHER -> "9"

RECURSIVE Digits(_)
Digits(n) == IF n < 10 THEN <<Digit(n)>> ELSE Digits(n \div 10) \o <<Digit(n % 10)>>

\* str(v)
ToStr(v) ==
    CASE v.t = "str" -> v.s
      [] v.t = "NoneType" -> <<"N", "o", "n", "e">>
      [] v.t = "int" -> Digits(v.n)
      [] v.t = "float" -> Digits(v.n) \o <<".", "0">>
      [] v.t = "inf" -> <<"i", "n", "f">>
      [] OTHER -> <<"n", "a", "n">>

(***************************************************************************)
(* str.lower, str.strip, str.split(',')                                    *)
(***************************************************************************)
LowerChar(c) ==
    CASE c = "A" -> "a" [] c = "B" -> "b" [] c = "C" -> "c"
      [] c = "N" -> "n" [] c = "O" -> "o" [] c = "E" -> "e"
      [] c = "Y" -> "y" [] c = "S" -> "s" [] c = "T" -> "t"
      [] OTHER -> c

Lower(s) == IF s = <<>> THEN <<>> ELSE [i \in 1..Len(s) |-> LowerChar(s[i])]

IsSpace(c) == c = " "

RECURSIVE LStrip(_)
LStrip(s) == IF s # <<>> /\ IsSpace(Head(s)) THEN LStrip(Tail(s)) ELSE s

RECURSIVE RStrip(_)
RStrip(s) ==
    IF s # <<>> /\ IsSpace(s[Len(s)]) THEN RStrip(SubSeq(s, 1, Len(s) - 1)) ELSE s

Strip(s) == RStrip(LStrip(s))

RECURSIVE SplitOn(_, _)
SplitOn(s, sep) ==
    IF \A i \in 1..Len(s) : s[i] # sep
    THEN <<s>>
    ELSE LET i == CHOOSE k \in 1..Len(s) :
                      s[k] = sep /\ \A j \in 1..(k - 1) : s[j] # sep
         IN  <<SubSeq(s, 1, i - 1)>> \o SplitOn(SubSeq(s, i + 1, Len(s)), sep)

Split(s) == SplitOn(s, ",")

Range(f) == {f[i] : i \in DOMAIN f}

(***************************************************************************)
(* Results of a call: a returned value or a propagated exception           *)
(***************************************************************************)
Return(v) == [exc |-> "", val |-> v]
Raise(e) == [exc |-> e, val |-> 0]
NoRet == [exc |-> "pending", val |-> 0]

(***************************************************************************)
(* calculate_special_needs_score                                           *)
(***************************************************************************)
NoneWords == {<<"n", "o", "n", "e">>, <<"n", "/", "a">>, <<>>}

\* set(s.strip().lower() for s in str(x).split(',') if s.strip())
TagSet(v) == {Lower(Strip(tok)) : tok \in {k \in Range(Split(ToStr(v))) : Strip(k) # <<>>}}

\* math.ceil(matches / len(owner_set) * 20); the float product is exact enough
\* that the ceiling equals the integer ceiling of 20*matches/len.
CeilCoverage(matches, total) == (20 * matches + total - 1) \div total

\* A coverage bonus computed over the union of the two tag sets (Jaccard).
NeedsBonusJaccard(owner_set, sitter_set) ==
    CeilCoverage(Cardinality(owner_set \cap sitter_set),
                 Cardinality(owner_set \cup sitter_set))

\* matches = len(owner_set & sitter_set); coverage = matches / len(owner_set)
NeedsBonus(owner_set, sitter_set) ==
    CeilCoverage(Cardinality(owner_set \cap sitter_set), Cardinality(owner_set))

calculate_special_needs_score(owner_needs, sitter_needs) ==
    \* line 128, evaluated left to right outside the try
    IF ~Truthy(owner_needs) THEN Return(0)
    ELSE IF ~Truthy(sitter_needs) THEN Return(0)
    ELSE IF ~IsStr(owner_needs) THEN Raise("AttributeError")
    ELSE IF Lower(owner_needs.s) \in NoneWords THEN Return(0)
    ELSE IF ~IsStr(sitter_needs) THEN Raise("AttributeError")
    ELSE IF Lower(sitter_needs.s) \in NoneWords THEN Return(0)
    ELSE LET owner_set == TagSet(owner_needs)
             sitter_set == TagSet(sitter_needs)
         IN  IF owner_set = {} \/ sitter_set = {} THEN Return(0)
             ELSE Return(NeedsBonus(owner_set, sitter_set))

(***************************************************************************)
(* Distances.  A distance in miles is a real; against the integer bucket   *)
(* bounds only its whole part and whether it lies strictly above it        *)
(* matter: [mi, frac] stands for mi miles exactly (frac = 0) or for a      *)
(* value strictly between mi and mi + 1 (frac = 1).  NaNDist is float NaN. *)
(***************************************************************************)
Miles(mi, frac) == [k |-> "real", mi |-> mi, frac |-> frac]
NaNDist == [k |-> "nan", mi |-> 0, frac |-> 0]

Sentinel == 999999

\* distance <= bound; every comparison with NaN is false
DistLeq(distance, bound) ==
    /\ distance.k = "real"
    /\ \/ distance.mi < bound
       \/ distance.mi = bound /\ distance.frac = 0

\* The step function with strict comparisons (boundaries fall in the lower bucket).
DistanceScoreStrict(distance) ==
    IF distance.k = "real" /\ distance.mi < 5 THEN 40
    ELSE IF distance.k = "real" /\ distance.mi < 10 THEN 35
    ELSE IF distance.k = "real" /\ distance.mi < 15 THEN 30
    ELSE IF distance.k = "real" /\ distance.mi < 20 THEN 25
    ELSE IF distance.k = "real" /\ distance.mi < 30 THEN 20
    ELSE IF distance.k = "real" /\ distance.mi < 50 THEN 15
    ELSE 10

calculate_distance_score(distance) ==
    IF DistLeq(distance, 5) THEN 40
    ELSE IF DistLeq(distance, 10) THEN 35
    ELSE IF DistLeq(distance, 15) THEN 30
    ELSE IF DistLeq(distance, 20) THEN 25
    ELSE IF DistLeq(distance, 30) THEN 20
    ELSE IF DistLeq(distance, 50) THEN 15
    ELSE 10

(***************************************************************************)
(* haversine_distance.  float(x) of a coordinate either raises (None, a    *)
(* non-numeric str), or yields NaN, an infinity or a finite number.  The   *)
(* trigonometry of lines 88-94 is not computed: for finite coordinates the *)
(* great-circle distance to the owner is the input `miles`.  math.sin of   *)
(* an infinity raises ValueError; NaN flows through sin, sqrt and asin.    *)
(***************************************************************************)
IsDigits(s) == s # <<>> /\ \A i \in 1..Len(s) : s[i] \in {"0", "1", "2", "3", "4", "5", "6", "7", "8", "9"}

\* float(v): "raise", "nan", "inf" or "finite"
FloatKind(v) ==
    CASE v.t \in {"float", "int"} -> "finite"
      [] v.t = "nan" -> "nan"
      [] v.t = "inf" -> "inf"
      [] v.t = "NoneType" -> "raise"
      [] OTHER -> IF IsDigits(Strip(v.s)) THEN "finite"
                  ELSE IF Lower(Strip(v.s)) = <<"n", "a", "n">> THEN "nan"
                  ELSE IF Lower(Strip(v.s)) = <<"i", "n", "f">> THEN "inf"
                  ELSE "raise"

\* haversine_distance without the try/except: the exception propagates.
HaversineNoCatch(lat, lon, miles) ==
    LET kinds == {FloatKind(lat), FloatKind(lon)}
    IN  IF "raise" \in kinds THEN Raise("ValueError")
        ELSE IF "inf" \in kinds THEN Raise("ValueError")
        ELSE IF "nan" \in kinds THEN Return(NaNDist)
        ELSE Return(miles)

haversine_distance(lat, lon, miles) ==
    LET kinds == {FloatKind(lat), FloatKind(lon)}
    IN  IF "raise" \in kinds THEN Return(Miles(Sentinel, 0))
        ELSE IF "inf" \in kinds THEN Return(Miles(Sentinel, 0))
        ELSE IF "nan" \in kinds THEN Return(NaNDist)
        ELSE Return(miles)

(***************************************************************************)
(* datetime.strptime(s, '%Y-%m-%d'): four digits, one or two digits, one   *)
(* or two digits, separated by '-', naming a day of the calendar.          *)
(***************************************************************************)
DigitVal(c) ==
    CASE c = "0" -> 0 [] c = "1" -> 1 [] c = "2" -> 2 [] c = "3" -> 3
      [] c = "4" -> 4 [] c = "5" -> 5 [] c = "6" -> 6 [] c = "7" -> 7
      [] c = "8" -> 8 [] OTHER -> 9

RECURSIVE ParseInt(_)
ParseInt(s) == IF s = <<>> THEN 0 ELSE 10 * ParseInt(SubSeq(s, 1, Len(s) - 1)) + DigitVal(s[Len(s)])

IsLeap(y) == (y % 4 = 0 /\ y % 100 # 0) \/ y % 400 = 0

DaysIn(y, m) ==
    IF m = 2 THEN (IF IsLeap(y) THEN 29 ELSE 28)
    ELSE IF m \in {4, 6, 9, 11} THEN 30 ELSE 31

NoDate == [ok |-> FALSE, key |-> 0]

\* The parsed date, ordered by key as datetime orders dates.
strptime(s) ==
    LET parts == SplitOn(s, "-")
    IN  IF Len(parts) # 3 THEN NoDate
        ELSE IF ~(IsDigits(parts[1]) /\ Len(parts[1]) = 4) THEN NoDate
        ELSE IF ~(IsDigits(parts[2]) /\ Len(parts[2]) <= 2) THEN NoDate
        ELSE IF ~(IsDigits(parts[3]) /\ Len(parts[3]) <= 2) THEN NoDate
        ELSE LET y == ParseInt(parts[1])
                 m == ParseInt(parts[2])
                 d == ParseInt(parts[3])
             IN  IF y >= 1 /\ m \in 1..12 /\ d >= 1 /\ d <= DaysIn(y, m)
                 THEN [ok |-> TRUE, key |-> (y * 12 + m) * 31 + d]
                 ELSE NoDate

(***************************************************************************)
(* calculate_availability_score                                            *)
(***************************************************************************)
\* The window test with the end of the request ignored.
WindowContainsStartOnly(req_start, req_end, avail_start, avail_end) ==
    avail_start.key <= req_start.key /\ req_start.key <= avail_end.key

\* avail_start <= req_start and req_end <= avail_end
WindowContains(req_start, req_end, avail_start, avail_end) ==
    avail_start.key <= req_start.key /\ req_end.key <= avail_end.key

calculate_availability_score(requested_start, requested_end, available_start, available_end) ==
    LET req_start == strptime(ToStr(requested_start))
        req_end == IF Truthy(requested_end) THEN strptime(ToStr(requested_end)) ELSE req_start
        avail_start == strptime(ToStr(available_start))
        avail_end == strptime(ToStr(available_end))
    IN  \* any strptime failure is caught by the except: return 0
        IF ~req_start.ok \/ ~req_end.ok \/ ~avail_start.ok \/ ~avail_end.ok THEN Return(0)
        ELSE IF WindowContains(req_start, req_end, avail_start, avail_end) THEN Return(40)
        ELSE Return(0)

(***************************************************************************)
(* calculate_service_score                                                 *)
(***************************************************************************)
\* The offered tokens lowercased but not trimmed.
OfferedListNoStrip(offered_services) ==
    LET toks == Split(ToStr(offered_services))
    IN  {Lower(toks[i]) : i \in 1..Len(toks)}

\* [s.strip().lower() for s in str(offered_services).split(',')], as a set
OfferedList(offered_services) ==
    LET toks == Split(ToStr(offered_services))
    IN  {Lower(Strip(toks[i])) : i \in 1..Len(toks)}

calculate_service_score(requested_service, offered_services) ==
    IF Lower(ToStr(requested_service)) \in OfferedList(offered_services)
    THEN Return(20)
    ELSE Return(0)

(***************************************************************************)
(* Building the inputs: bounded sequences, joined tag lists, date texts    *)
(***************************************************************************)
RECURSIVE Join(_)
Join(toks) ==
    IF Len(toks) = 1 THEN toks[1] ELSE toks[1] \o <<",">> \o Join(Tail(toks))

RECURSIVE SeqsUpTo(_, _)
SeqsUpTo(S, n) ==
    IF n = 0 THEN {<<>>}
    ELSE LET shorter == SeqsUpTo(S, n - 1)
         IN  shorter \cup {Append(q, x) : q \in {r \in shorter : Len(r) = n - 1}, x \in S}

Pad2(n) == IF n < 10 THEN <<"0">> \o Digits(n) ELSE Digits(n)

\* The text YYYY-MM-DD of a day, as the requester and the table write it.
DateText(y, m, d) == Digits(y) \o <<"-">> \o Pad2(m) \o <<"-">> \o Pad2(d)

(***************************************************************************)
(* match_sitters.  The table is the content of the 'sitters' table as      *)
(* load_sitter_data returns it: the DataFrame's columns and its rows.  A   *)
(* row gives a value for every column (NaN or None where the record has    *)
(* none); `miles` is the great-circle distance from the owner's resolved   *)
(* location to the row's coordinates when both are finite.                 *)
(***************************************************************************)
TopN == 5

RequiredColumns ==
    {"name", "zip_code", "latitude", "longitude", "services", "special_needs",
     "availability_start", "availability_end"}

\* A total that counts the distance score twice.
TotalScoreDouble(distance_score, availability_score, service_score, special_needs_score) ==
    distance_score + distance_score + availability_score + service_score + special_needs_score

\* total_score = distance_score + availability_score + service_score + special_needs_score
TotalScore(distance_score, availability_score, service_score, special_needs_score) ==
    distance_score + availability_score + service_score + special_needs_score

\* request.endDate or request.startDate
EndOrStart(req) == IF Truthy(req.endDate) THEN req.endDate ELSE req.startDate

\* An availability score that falls back on the acceptance flag when the
\* row has no start/end pair.
AvailabilityByFlag(req, sitter) ==
    IF IsStr(sitter.availability_start) /\ IsStr(sitter.availability_end)
    THEN calculate_availability_score(req.startDate, EndOrStart(req),
                                      sitter.availability_start, sitter.availability_end)
    ELSE IF IsStr(sitter.accepting)
            /\ Lower(sitter.accepting.s) \in {<<"y", "e", "s">>, <<"t", "r", "u", "e">>, <<"1">>}
         THEN Return(40)
         ELSE Return(0)

\* lines 233-238: every row is scored by its availability_start/_end
AvailabilityOf(req, sitter) ==
    calculate_availability_score(req.startDate, EndOrStart(req),
                                 sitter.availability_start, sitter.availability_end)

\* The body of the try of the loop for row i: the result it appends, or the
\* exception that reaches the except.  round(float(distance), 2) only
\* changes the displayed distance (NaN stays NaN) and is left out; the four
\* component scores are the locals printed on line 245.
ScoreSitter(req, columns, sitter, i) ==
    IF ~(RequiredColumns \subseteq columns) THEN Raise("KeyError")
    ELSE
    LET distance == haversine_distance(sitter.latitude, sitter.longitude, sitter.miles)
        availability_score == AvailabilityOf(req, sitter)
        service_score == calculate_service_score(req.service, sitter.services)
        special_needs_score == calculate_special_needs_score(req.needs, sitter.special_needs)
    IN  IF distance.exc # "" THEN Raise(distance.exc)
        ELSE IF special_needs_score.exc # "" THEN Raise(special_needs_score.exc)
        ELSE LET distance_score == calculate_distance_score(distance.val)
             IN  Return([idx |-> i,
                         name |-> ToStr(sitter.name),
                         location |-> ToStr(sitter.zip_code),
                         distance |-> distance.val,
                         score |-> TotalScore(distance_score, availability_score.val,
                                              service_score.val, special_needs_score.val),
                         availability |-> <<ToStr(sitter.availability_start),
                                            ToStr(sitter.availability_end)>>,
                         special_needs |-> ToStr(sitter.special_needs),
                         distance_score |-> distance_score,
                         availability_score |-> availability_score.val,
                         service_score |-> service_score.val,
                         special_needs_score |-> special_needs_score.val])

\* An except branch that leaves the loop.
ExceptBreak(acc, i, n) == [results |-> acc, idx |-> n + 1]

\* except Exception: print; continue
ExceptContinue(acc, i, n) == [results |-> acc, idx |-> i + 1]

\* x placed before the entries of equal score (ties in reverse input order).
InsertBeforeEqual(sorted, x) ==
    LET before == {k \in 1..Len(sorted) : sorted[k].score > x.score}
        cut == Cardinality(before)
    IN  SubSeq(sorted, 1, cut) \o <<x>> \o SubSeq(sorted, cut + 1, Len(sorted))

\* x placed after every entry of score >= x.score
InsertByScore(sorted, x) ==
    LET before == {k \in 1..Len(sorted) : sorted[k].score >= x.score}
        cut == Cardinality(before)
    IN  SubSeq(sorted, 1, cut) \o <<x>> \o SubSeq(sorted, cut + 1, Len(sorted))

\* sorted(results, key=lambda x: x['score'], reverse=True): stable, descending
RECURSIVE SortedByScore(_)
SortedByScore(rs) ==
    IF rs = <<>> THEN <<>>
    ELSE InsertByScore(SortedByScore(SubSeq(rs, 1, Len(rs) - 1)), rs[Len(rs)])

\* [:5]
Top(rs) == SubSeq(rs, 1, IF Len(rs) < TopN THEN Len(rs) ELSE TopN)

(***************************************************************************)
(* Calls of the scoring functions on their own: the arguments are drawn in *)
(* the initial state and the call stores what the function returns.        *)
(***************************************************************************)
MaxTags == 2
MaxLen == 3
MaxMiles == 51

NeedTokens ==
    {<<"a">>, <<"b">>, <<" ", "A">>, <<>>, <<"n", "o", "n", "e">>, <<"N", "/", "A">>}

NeedStrings == {<<>>} \cup {Join(ts) : ts \in SeqsUpTo(NeedTokens, MaxTags) \ {<<>>}}

NeedValues == {PyStr(s) : s \in NeedStrings} \cup {PyNone, PyNaN, PyInt(5), PyInt(0)}

RequestedServices == {PyStr(s) : s \in SeqsUpTo({"a", "A", " "}, MaxLen)}

OfferedServices ==
    {PyStr(s) : s \in SeqsUpTo({"a", "A", " ", ","}, MaxLen)} \cup {PyNone, PyNaN}

DateValues ==
    {PyStr(DateText(2025, m, d)) : m \in {1, 2}, d \in {1, 10, 12, 31}}
        \cup {PyStr(<<"2", "0", "2", "5", "-", "1", "-", "5">>),
              PyStr(<<"s", "o", "o", "n">>), PyStr(<<>>), PyNone, PyNaN}

DistanceValues ==
    {Miles(mi, frac) : mi \in 0..MaxMiles, frac \in {0, 1}}
        \cup {Miles(Sentinel, 0), NaNDist}

MatchOff ==
    /\ table = [columns |-> {}, rows |-> <<>>]
    /\ pc = "off"
    /\ request = PyNone
    /\ idx = 0
    /\ results = <<>>
    /\ response = <<>>

InitNeeds ==
    /\ MatchOff
    /\ fn = "calculate_special_needs_score"
    /\ args \in NeedValues \X NeedValues
    /\ ret = NoRet

InitService ==
    /\ MatchOff
    /\ fn = "calculate_service_score"
    /\ args \in RequestedServices \X OfferedServices
    /\ ret = NoRet

InitAvail ==
    /\ MatchOff
    /\ fn = "calculate_availability_score"
    /\ args \in DateValues \X DateValues \X DateValues \X DateValues
    /\ ret = NoRet

InitDistance ==
    /\ MatchOff
    /\ fn = "calculate_distance_score"
    /\ args \in {<<d>> : d \in DistanceValues}
    /\ ret = NoRet

CallNeeds ==
    /\ fn = "calculate_special_needs_score"
    /\ ret = NoRet
    /\ ret' = calculate_special_needs_score(args[1], args[2])
    /\ UNCHANGED <<matchVars, fn, args>>

CallService ==
    /\ fn = "calculate_service_score"
    /\ ret = NoRet
    /\ ret' = calculate_service_score(args[1], args[2])
    /\ UNCHANGED <<matchVars, fn, args>>

CallAvail ==
    /\ fn = "calculate_availability_score"
    /\ ret = NoRet
    /\ ret' = calculate_availability_score(args[1], args[2], args[3], args[4])
    /\ UNCHANGED <<matchVars, fn, args>>

CallDistance ==
    /\ fn = "calculate_distance_score"
    /\ ret = NoRet
    /\ ret' = Return(calculate_distance_score(args[1]))
    /\ UNCHANGED <<matchVars, fn, args>>

SpecNeeds == InitNeeds /\ [][CallNeeds]_vars
SpecService == InitService /\ [][CallService]_vars
SpecAvail == InitAvail /\ [][CallAvail]_vars
SpecDistance == InitDistance /\ [][CallDistance]_vars

Called(f) == fn = f /\ ret # NoRet

(***************************************************************************)
(* The matching run: requests, tables, and the steps of match_sitters      *)
(***************************************************************************)
MaxCands == 3
MaxRank == 6

Jan(d) == PyStr(DateText(2025, 1, d))
Feb(d) == PyStr(DateText(2025, 2, d))

Requests ==
    {[zipCode |-> PyStr(<<"1">>), service |-> PyStr(<<"a">>),
      startDate |-> Jan(10), endDate |-> Jan(12), needs |-> PyStr(<<"a", ",", "b">>)],
     [zipCode |-> PyStr(<<"1">>), service |-> PyStr(<<"A">>),
      startDate |-> Jan(10), endDate |-> PyNone, needs |-> PyStr(<<"n", "o", "n", "e">>)],
     [zipCode |-> PyStr(<<"1">>), service |-> PyStr(<<" ", "a">>),
      startDate |-> PyStr(<<"s", "o", "o", "n">>), endDate |-> PyStr(<<>>),
      needs |-> PyStr(<<"b">>)]}

Near ==
    [name |-> PyStr(<<"n">>), zip_code |-> PyStr(<<"1">>),
     latitude |-> PyFloat(40), longitude |-> PyFloat(74), miles |-> Miles(3, 1),
     availability_start |-> Jan(1), availability_end |-> Jan(31),
     services |-> PyStr(<<"a", ",", " ", "b">>),
     special_needs |-> PyStr(<<"a", ",", "b">>), accepting |-> PyNaN]

Mid ==
    [name |-> PyStr(<<"m">>), zip_code |-> PyStr(<<"2">>),
     latitude |-> PyFloat(40), longitude |-> PyFloat(74), miles |-> Miles(15, 0),
     availability_start |-> Jan(1), availability_end |-> Jan(31),
     services |-> PyStr(<<"A">>),
     special_needs |-> PyStr(<<"a">>), accepting |-> PyNaN]

FarBusy ==
    [name |-> PyStr(<<"f">>), zip_code |-> PyStr(<<"3">>),
     latitude |-> PyFloat(41), longitude |-> PyFloat(75), miles |-> Miles(60, 1),
     availability_start |-> Feb(1), availability_end |-> Feb(10),
     services |-> PyStr(<<"b">>),
     special_needs |-> PyStr(<<"N", "o", "n", "e">>), accepting |-> PyNaN]

BadCoord ==
    [name |-> PyStr(<<"x">>), zip_code |-> PyStr(<<"4">>),
     latitude |-> PyStr(<<"?">>), longitude |-> PyFloat(74), miles |-> Miles(0, 0),
     availability_start |-> Jan(1), availability_end |-> Jan(31),
     services |-> PyStr(<<"a">>),
     special_needs |-> PyStr(<<"b">>), accepting |-> PyNaN]

FlagYes ==
    [name |-> PyStr(<<"y">>), zip_code |-> PyStr(<<"5">>),
     latitude |-> PyNaN, longitude |-> PyNaN, miles |-> Miles(0, 0),
     availability_start |-> PyNaN, availability_end |-> PyNaN,
     services |-> PyStr(<<"a">>),
     special_needs |-> PyNone, accepting |-> PyStr(<<"Y", "e", "s">>)]

FlagNo ==
    [name |-> PyStr(<<"o">>), zip_code |-> PyStr(<<"6">>),
     latitude |-> PyFloat(40), longitude |-> PyFloat(74), miles |-> Miles(3, 1),
     availability_start |-> PyNone, availability_end |-> PyNone,
     services |-> PyNaN,
     special_needs |-> PyNaN, accepting |-> PyStr(<<"n", "o">>)]

NumNeeds ==
    [name |-> PyStr(<<"5">>), zip_code |-> PyStr(<<"7">>),
     latitude |-> PyFloat(40), longitude |-> PyInf, miles |-> Miles(0, 0),
     availability_start |-> Jan(10), availability_end |-> Jan(10),
     services |-> PyStr(<<"a">>),
     special_needs |-> PyInt(5), accepting |-> PyNaN]

Rows == {Near, Mid, FarBusy, BadCoord, FlagYes, FlagNo, NumNeeds}
RankRows == {Near, Mid, NumNeeds}

\* The columns of a table of the flag schema: no availability window.
FlagColumns == (RequiredColumns \ {"availability_start", "availability_end"}) \cup {"accepting"}

Tables ==
    {[columns |-> cols, rows |-> rs] :
        cols \in {RequiredColumns \cup {"accepting"}, FlagColumns},
        rs \in SeqsUpTo(Rows, MaxCands)}

RankTables ==
    {[columns |-> RequiredColumns, rows |-> rs] : rs \in SeqsUpTo(RankRows, MaxRank)}

CallOff ==
    /\ fn = "match_sitters"
    /\ args = <<>>
    /\ ret = NoRet

Idle ==
    /\ pc = "idle"
    /\ request = PyNone
    /\ idx = 0
    /\ results = <<>>
    /\ response = <<>>
    /\ CallOff

Init == table \in Tables /\ Idle

InitRank == table \in RankTables /\ Idle

\* load_sitter_data raises (the table cannot be read): HTTP 500
LoadFails ==
    /\ pc = "idle"
    /\ \E req \in Requests : request' = req
    /\ pc' = "error"
    /\ UNCHANGED <<table, idx, results, response, callVars>>

\* len(sitters_df) == 0: return MatchResponse(matches=[])
MatchEmpty ==
    /\ pc = "idle"
    /\ Len(table.rows) = 0
    /\ \E req \in Requests : request' = req
    /\ response' = <<>>
    /\ pc' = "done"
    /\ UNCHANGED <<table, idx, results, callVars>>

\* the request is read, the table loaded, the owner located: results = []
\* (geocode_zipcode never raises and always yields a finite coordinate pair)
MatchStart ==
    /\ pc = "idle"
    /\ Len(table.rows) > 0
    /\ \E req \in Requests : request' = req
    /\ results' = <<>>
    /\ idx' = 1
    /\ pc' = "scoring"
    /\ UNCHANGED <<table, response, callVars>>

\* one iteration of the loop whose try completes: results.append(...)
ScoreSitterOk ==
    /\ pc = "scoring"
    /\ idx <= Len(table.rows)
    /\ LET r == ScoreSitter(request, table.columns, table.rows[idx], idx)
       IN  /\ r.exc = ""
           /\ results' = Append(results, r.val)
    /\ idx' = idx + 1
    /\ UNCHANGED <<table, pc, request, response, callVars>>

\* one iteration of the loop that ends in the except
ScoreSitterExcept ==
    /\ pc = "scoring"
    /\ idx <= Len(table.rows)
    /\ ScoreSitter(request, table.columns, table.rows[idx], idx).exc # ""
    /\ LET after == ExceptContinue(results, idx, Len(table.rows))
       IN  /\ results' = after.results
           /\ idx' = after.idx
    /\ UNCHANGED <<table, pc, request, response, callVars>>

\* results_sorted = sorted(...)[:5]; return MatchResponse(matches=results_sorted)
SortAndReturn ==
    /\ pc = "scoring"
    /\ idx > Len(table.rows)
    /\ response' = Top(SortedByScore(results))
    /\ pc' = "done"
    /\ UNCHANGED <<table, request, idx, results, callVars>>

Next ==
    \/ LoadFails
    \/ MatchEmpty
    \/ MatchStart
    \/ ScoreSitterOk
    \/ ScoreSitterExcept
    \/ SortAndReturn

Spec == Init /\ [][Next]_vars
SpecRank == InitRank /\ [][Next]_vars

(***************************************************************************)
(* Properties of the scoring functions                                     *)
(***************************************************************************)
\* A needs string the coverage formula applies to: a non-empty str, not
\* "none" or "n/a" in any case, with at least one non-blank tag.
DeclaresNeeds(v) ==
    /\ IsStr(v)
    /\ v.s # <<>>
    /\ Lower(v.s) \notin {<<"n", "o", "n", "e">>, <<"n", "/", "a">>}
    /\ TagSet(v) # {}

DayOf(v) ==
    IF \E m \in {1, 2}, d \in 1..31 : v = PyStr(DateText(2025, m, d)) /\ (m = 2 => d <= 28)
    THEN LET md == CHOOSE md \in {1, 2} \X (1..31) : v = PyStr(DateText(2025, md[1], md[2]))
         IN  (md[1] - 1) * 31 + md[2]
    ELSE IF v = PyStr(<<"2", "0", "2", "5", "-", "1", "-", "5">>) THEN 5
    ELSE 0

\* C5: calculate_availability_score returns 40 exactly when every date is a
\* calendar date and avail_start <= req_start and req_end <= avail_end, with
\* req_end = req_start when the requested end is absent; otherwise it returns
\* 0; it never raises.
C5_Availability ==
    Called("calculate_availability_score") =>
        LET absent == args[2] \in {PyNone, PyStr(<<>>)}
            rs == DayOf(args[1])
            re == IF absent THEN rs ELSE DayOf(args[2])
            as == DayOf(args[3])
            ae == DayOf(args[4])
            contained == /\ rs > 0 /\ re > 0 /\ as > 0 /\ ae > 0
                         /\ as <= rs /\ re <= ae
        IN  /\ ret.exc = ""
            /\ ret.val = IF contained THEN 40 ELSE 0

\* C5 witness: a request without end date inside the window, scored 40.
C5_Witness ==
    /\ Called("calculate_availability_score")
    /\ args[2] = PyNone
    /\ DayOf(args[3]) < DayOf(args[1]) /\ DayOf(args[1]) < DayOf(args[4])
    /\ ret = Return(40)

\* The offered tokens: split on commas, trimmed, lowercased.
OfferedTokens(v) == {Lower(Strip(tok)) : tok \in Range(SplitOn(ToStr(v), ","))}

\* C7 as stated: 20 exactly when the requested service, lowercased and
\* trimmed, is one of the offered tokens.
C7_ServiceTrimmed ==
    Called("calculate_service_score") =>
        /\ ret.exc = ""
        /\ ret.val = IF Lower(Strip(ToStr(args[1]))) \in OfferedTokens(args[2]) THEN 20 ELSE 0

\* C7 amended: 20 exactly when the requested service, lowercased but not
\* trimmed, is one of the offered tokens (split on commas, trimmed,
\* lowercased); otherwise 0.
C7_ServiceLowercased ==
    Called("calculate_service_score") =>
        /\ ret.exc = ""
        /\ ret.val = IF Lower(ToStr(args[1])) \in OfferedTokens(args[2]) THEN 20 ELSE 0

\* C7 witness: a match on an offered token that had to be trimmed and
\* lowercased, in a list of several.
C7_Witness ==
    /\ Called("calculate_service_score")
    /\ ret = Return(20)
    /\ Len(SplitOn(ToStr(args[2]), ",")) > 1
    /\ \E tok \in Range(SplitOn(ToStr(args[2]), ",")) :
           /\ Lower(Strip(tok)) = Lower(args[1].s)
           /\ Strip(tok) # tok
           /\ Lower(tok) # tok

BucketBounds == <<5, 10, 15, 20, 30, 50>>
BucketPoints == <<40, 35, 30, 25, 20, 15>>

\* d1 <= d2 may hold of the two distances
MayLeq(d1, d2) ==
    /\ d1.k = "real" /\ d2.k = "real"
    /\ d1.mi < d2.mi \/ (d1.mi = d2.mi /\ d1.frac <= d2.frac)

\* C8: calculate_distance_score returns the points of the first bucket whose
\* bound is >= the distance (the bound itself included) and 10 above 50; it
\* is non-increasing in the distance and never below 10.
C8_DistanceSteps ==
    Called("calculate_distance_score") =>
        LET d == args[1]
            fits == {i \in 1..6 : d.mi < BucketBounds[i] \/ (d.mi = BucketBounds[i] /\ d.frac = 0)}
        IN  /\ ret.exc = ""
            /\ ret.val >= 10
            /\ d.k = "real" =>
                  /\ ret.val = IF fits = {} THEN 10
                               ELSE BucketPoints[CHOOSE i \in fits : \A j \in fits : i <= j]
                  /\ \A d2 \in DistanceValues :
                         MayLeq(d, d2) => ret.val >= calculate_distance_score(d2)
                  /\ \A d0 \in DistanceValues :
                         MayLeq(d0, d) => calculate_distance_score(d0) >= ret.val

\* C8 witness: a distance of exactly 10 miles scored 35.
C8_Witness ==
    /\ Called("calculate_distance_score")
    /\ args[1] = Miles(10, 0)
    /\ ret = Return(35)

\* C10 as stated, for a requester's needs that are a str (as match_sitters
\* passes them): whatever the candidate's value is, a string or not,
\* calculate_special_needs_score raises nothing, and returns 0 when the
\* value is not a string.
C10_NeedsNeverRaises ==
    (Called("calculate_special_needs_score") /\ IsStr(args[1])) =>
        /\ ret.exc = ""
        /\ ~IsStr(args[2]) => ret.val = 0

(***************************************************************************)
(* Properties of the matching run                                          *)
(***************************************************************************)
Done == pc = "done"

\* row i is scored: the try of its iteration completes
RowOk(i) == ScoreSitter(request, table.columns, table.rows[i], i).exc = ""

\* x is ranked before y: a higher score, or the same score and earlier input
RankedBefore(x, y) == x.score > y.score \/ (x.score = y.score /\ x.idx < y.idx)

Min(a, b) == IF a < b THEN a ELSE b

\* C1: the output of match_sitters is the first min(5, n) of the n scored
\* candidates in descending order of score, equal scores in input order: at
\* most 5 entries, empty for an empty table, and no entry is ranked after a
\* candidate that was left out.
C1_TopFiveStable ==
    Done =>
        LET ok == {i \in 1..Len(table.rows) : RowOk(i)}
        IN  /\ Len(results) = Cardinality(ok)
            /\ \A k \in 1..Len(results) :
                   /\ results[k].idx \in ok
                   /\ results[k] = ScoreSitter(request, table.columns,
                                               table.rows[results[k].idx], results[k].idx).val
                   /\ \A l \in 1..(k - 1) : results[l].idx < results[k].idx
            /\ Len(response) = Min(5, Cardinality(ok))
            /\ \A j \in 1..Len(response) : response[j] \in Range(results)
            /\ \A a, b \in 1..Len(response) : a < b => RankedBefore(response[a], response[b])
            /\ \A r \in Range(results) \ Range(response) :
                   \A j \in 1..Len(response) : RankedBefore(response[j], r)

\* C1 witness: more than five scored candidates, equal scores among the five
\* returned, and a candidate left out.
C1_Witness ==
    /\ Done
    /\ Len(results) > 5
    /\ Len(response) = 5
    /\ \E a, b \in 1..5 : a < b /\ response[a].score = response[b].score
    /\ response[1].score > response[5].score
    /\ \E r \in Range(results) : r \notin Range(response) /\ r.idx < response[5].idx

\* C2: every ScoredResult has an integer total in 0..120 that is the sum of
\* a distance score in 0..40, an availability score in {0, 40}, a service
\* score in {0, 20} and a needs score in 0..20.
C2_ScoreRange ==
    \A r \in Range(results) \cup Range(response) :
        /\ r.score \in 0..120
        /\ r.score = r.distance_score + r.availability_score + r.service_score
                        + r.special_needs_score
        /\ r.distance_score \in 0..40
        /\ r.availability_score \in {0, 40}
        /\ r.service_score \in {0, 20}
        /\ r.special_needs_score \in 0..20

\* C2 witness: the maximal total 120 next to a result for a NaN distance.
C2_Witness ==
    /\ Done
    /\ \E r \in Range(response) : r.score = 120
    /\ \E r \in Range(response) : r.distance = NaNDist /\ r.score < 120

Unindexed(rs) == [k \in 1..Len(rs) |-> [rs[k] EXCEPT !.idx = 0]]

\* The run on a table none of whose rows fails.
RankingOf(req, columns, rows) ==
    Top(SortedByScore([i \in 1..Len(rows) |-> ScoreSitter(req, columns, rows[i], i).val]))

HasWindow(sitter) == IsStr(sitter.availability_start) /\ IsStr(sitter.availability_end)

FlagTruthy(sitter) ==
    /\ IsStr(sitter.accepting)
    /\ Lower(sitter.accepting.s) \in {<<"y", "e", "s">>, <<"t", "r", "u", "e">>, <<"1">>}

\* The request's interval lies in the row's window, by the calendar.
Contained(req, sitter) ==
    LET rs == DayOf(req.startDate)
        re == IF req.endDate \in {PyNone, PyStr(<<>>)} THEN rs ELSE DayOf(req.endDate)
        as == DayOf(sitter.availability_start)
        ae == DayOf(sitter.availability_end)
    IN  /\ rs > 0 /\ re > 0 /\ as > 0 /\ ae > 0
        /\ as <= rs /\ re <= ae

BadCoordinates(sitter) ==
    FloatKind(sitter.latitude) # "finite" \/ FloatKind(sitter.longitude) # "finite"

\* C9 as stated: in the ranked output a candidate with a bad coordinate
\* comes after every candidate with valid coordinates.
C9_BadCoordinatesLast ==
    Done =>
        \A a, b \in 1..Len(response) :
            (/\ BadCoordinates(table.rows[response[a].idx])
             /\ ~BadCoordinates(table.rows[response[b].idx])) => b < a

\* C9 amended: a bad coordinate does not abort the run and does not drop the
\* candidate: its distance is the sentinel 999999 (NaN for a NaN
\* coordinate), its distance score is the lowest one, 10, and the output is
\* ordered by total score alone.
C9_BadCoordinatesFloor ==
    /\ \A r \in Range(results) :
           LET sitter == table.rows[r.idx]
               kinds == {FloatKind(sitter.latitude), FloatKind(sitter.longitude)}
           IN  BadCoordinates(sitter) =>
                   /\ r.distance_score = 10
                   /\ r.distance = IF kinds \subseteq {"nan", "finite"}
                                   THEN NaNDist ELSE Miles(Sentinel, 0)
    /\ Done =>
          /\ \A i \in 1..Len(table.rows) :
                 BadCoordinates(table.rows[i]) =>
                     ((\E r \in Range(results) : r.idx = i) <=>
                          /\ RequiredColumns \subseteq table.columns
                          /\ calculate_special_needs_score(
                                 request.needs, table.rows[i].special_needs).exc = "")
          /\ \A a, b \in 1..Len(response) : a < b => response[a].score >= response[b].score

\* C9 witness: a candidate with a bad coordinate is returned before a
\* candidate with valid coordinates.
C9_Witness ==
    /\ Done
    /\ \E a, b \in 1..Len(response) :
           /\ a < b
           /\ BadCoordinates(table.rows[response[a].idx])
           /\ response[a].distance = Miles(Sentinel, 0)
           /\ ~BadCoordinates(table.rows[response[b].idx])

=============================================================================
